---- MODULE Spec2Model ----
(***************************************************************************)
(* The two screens of envqmon_web_app: the dashboard                       *)
(* (src/app/dashboard/page.tsx), with the device freshness model and the   *)
(* polling / data-refresh lifecycle, and the analytics screen              *)
(* (src/app/analytics/page.tsx), with its range fetch and its poller.      *)
(*                                                                         *)
(* A React function component is a state machine whose handlers are        *)
(* closures over the state of the render that created them.  Every         *)
(* asynchronous call in flight therefore carries the values it captured    *)
(* (devices, selectedDevice, searchParams) next to its own locals.         *)
(***************************************************************************)
EXTENDS Bags, FiniteSets, Integers, Sequences, TLC

VARIABLES
    pc,              \* "init" before the mount effect, "mounted", "login" after router.push
    token,           \* whether localStorage holds a token
    historySync,     \* whether history.replaceState is reflected by useSearchParams (Next.js >= 14.1)
    now,             \* Date.now() in ms
    devices,         \* useState<Device[]>: sequence of device_id
    selectedDevice,  \* useState<string>
    deviceData,      \* useState<DeviceData | null>
    loading,         \* useState(true)
    dataLoading,     \* useState(false)
    error,           \* useState("")
    autoRefresh,     \* useState(false)
    deviceStatuses,  \* useState<Record<string, boolean>>
    searchParams,    \* useSearchParams().get("device"), "" when absent
    urlDevice,       \* the device query parameter of window.location, "" when absent
    interval,        \* the setInterval of the auto-refresh effect with its closure, or NoInterval
    dataFetches,     \* bag of fetchDeviceData calls awaiting their response
    refreshes,       \* bag of fetchDevices calls awaiting a response
    events,          \* number of user and timer events handled so far
    latestData,      \* argument of a direct isDeviceOnline evaluation
    online,          \* result of that evaluation: <<>> before it, <<b>> after
    analytics        \* state of the analytics screen (src/app/analytics/page.tsx), a record

vars == <<pc, token, historySync, now, devices, selectedDevice, deviceData, loading,
          dataLoading, error, autoRefresh, deviceStatuses, searchParams, urlDevice,
          interval, dataFetches, refreshes, events, latestData, online, analytics>>

pageVars == <<pc, token, historySync, devices, selectedDevice, deviceData, loading,
              dataLoading, error, autoRefresh, deviceStatuses, searchParams, urlDevice,
              interval, dataFetches, refreshes, events>>

-----------------------------------------------------------------------------
(* Bounds *)

MaxDataFetches == 2      \* fetchDeviceData calls in flight at once
MaxRefreshes == 1        \* fetchDevices calls in flight at once
MaxEvents == 2           \* user and timer events after the page has mounted

(* Program constants *)

OnlineThresholdMs == 20000
MsPerSecond == 1000

NoData == <<>>           \* null / undefined reading
NoInterval == <<>>       \* no setInterval registered
NaN == <<>>              \* Number.parseInt found no digits

MsgDevices == "Failed to fetch devices"
MsgNetwork == "Network error"
MsgNoData == "No data available for this device"
MsgDeviceData == "Failed to fetch device data"

GenericMessages == {MsgDevices, MsgNetwork, MsgDeviceData}

(* The backend: device lists and readings it may answer with *)

DeviceIds == {"d1", "d2"}
DeviceLists == {<<>>, <<"d1">>, <<"d1", "d2">>}
UrlParams == {"", "d2"}
RecordedAts == {<<"5", "0">>}      \* the backend's readings are fresh at the instant Clock
Clock == {50000}

(* Inputs of the direct evaluations of isDeviceOnline *)

MaxChars == 2
Chars == {"0", "2", "3", "-", "x"}
Strings == UNION {[1..n -> Chars] : n \in 0..MaxChars}
EvalTimes == {0, 10000, 17000, 17001, 19999, 20000, 20001, 22000, 23000, 23001,
              40000, 53000, 53001}

Range(s) == {s[k] : k \in DOMAIN s}

Reading(id, at) == [device_id |-> id, recorded_at |-> at]

-----------------------------------------------------------------------------
(* Number.parseInt on a string given as its sequence of characters:        *)
(* optional sign, then the longest prefix of decimal digits; NaN when that *)
(* prefix is empty.                                                        *)

DigitValue == ("0" :> 0) @@ ("1" :> 1) @@ ("2" :> 2) @@ ("3" :> 3) @@ ("4" :> 4) @@
              ("5" :> 5) @@ ("6" :> 6) @@ ("7" :> 7) @@ ("8" :> 8) @@ ("9" :> 9)

IsDigit(c) == c \in DOMAIN DigitValue

RECURSIVE DigitPrefix(_, _)
DigitPrefix(s, acc) ==
    IF s = <<>> \/ ~IsDigit(Head(s)) THEN acc
    ELSE DigitPrefix(Tail(s), acc * 10 + DigitValue[Head(s)])

parseInt(s) ==
    LET neg == s # <<>> /\ Head(s) = "-"
        body == IF s # <<>> /\ Head(s) \in {"-", "+"} THEN Tail(s) ELSE s
    IN  IF body = <<>> \/ ~IsDigit(Head(body)) THEN NaN
        ELSE IF neg THEN <<0 - DigitPrefix(body, 0)>> ELSE <<DigitPrefix(body, 0)>>

isDeviceOnline_strict(data, t) ==
    IF data = NoData THEN FALSE
    ELSE LET secs == parseInt(data.recorded_at)
         IN  IF secs = NaN THEN FALSE
             ELSE t - secs[1] * MsPerSecond < OnlineThresholdMs

isDeviceOnline(data, t) ==
    IF data = NoData THEN FALSE
    ELSE LET secs == parseInt(data.recorded_at)
         IN  IF secs = NaN THEN FALSE
             ELSE t - secs[1] * MsPerSecond <= OnlineThresholdMs

-----------------------------------------------------------------------------
(* State of one render, as captured by the closures created in it *)

Closure(devs, sel, param) ==
    [devices |-> devs, selectedDevice |-> sel, searchParams |-> param]

CurrentRender == Closure(devices, selectedDevice, searchParams)

(* The part of the component state a call of fetchDeviceData or an effect  *)
(* writes before its first await.                                          *)
View(sel, dl, err, fetches) ==
    [selectedDevice |-> sel, dataLoading |-> dl, error |-> err, dataFetches |-> fetches]

CurrentView == View(selectedDevice, dataLoading, error, dataFetches)

DataFetch(deviceId, showLoading, devs, ctx) ==
    [deviceId |-> deviceId, showLoading |-> showLoading, devices |-> devs, ctx |-> ctx]

MergeStatus_replaces(prev, deviceId, v) == [k \in {deviceId} |-> v]

(* setDeviceStatuses((prev) => ({...prev, [deviceId]: v})) *)
MergeStatus(prev, deviceId, v) ==
    [k \in (DOMAIN prev) \cup {deviceId} |-> IF k = deviceId THEN v ELSE prev[k]]

fetchDeviceData_keepsError(st, deviceId, showLoading, devs, ctx) ==
    IF deviceId = "" THEN st
    ELSE [st EXCEPT !.dataLoading = IF showLoading THEN TRUE ELSE @,
                    !.dataFetches = @ (+) SetToBag({DataFetch(deviceId, showLoading, devs, ctx)})]

(* fetchDeviceData up to its first await (lines 144-152) *)
fetchDeviceData(st, deviceId, showLoading, devs, ctx) ==
    IF deviceId = "" THEN st
    ELSE [st EXCEPT !.dataLoading = IF showLoading THEN TRUE ELSE @,
                    !.error = "",
                    !.dataFetches = @ (+) SetToBag({DataFetch(deviceId, showLoading, devs, ctx)})]

(* Number of fetchDeviceData calls a handler may add to the bag *)
Room(n) == BagCardinality(dataFetches) + n <= MaxDataFetches

(* The URL-parameter effect (lines 77-86), run after a render in which     *)
(* searchParams or devices changed.                                        *)
UrlParamEffect(st, param, devs) ==
    IF param # "" /\ Len(devs) > 0 /\ param \in Range(devs)
    THEN fetchDeviceData([st EXCEPT !.selectedDevice = param], param, TRUE, devs, "url")
    ELSE st

(* The auto-refresh effect (lines 54-65), deps [autoRefresh, selectedDevice]: *)
(* when a dep changed the old interval is cleared and a new one is set up  *)
(* with the closures of the new render.                                    *)
AutoRefreshEffect(old, ar0, sel0, ar1, sel1, render) ==
    IF ar1 /\ sel1 # ""
    THEN IF ar0 = ar1 /\ sel0 = sel1 THEN old ELSE render
    ELSE NoInterval

(* Writes a view back and re-runs the auto-refresh effect *)
Commit(st, devs, ar, param) ==
    /\ selectedDevice' = st.selectedDevice
    /\ dataLoading' = st.dataLoading
    /\ error' = st.error
    /\ dataFetches' = st.dataFetches
    /\ interval' = IF pc = "left" THEN NoInterval     \* no effect runs once unmounted
                   ELSE AutoRefreshEffect(interval, autoRefresh, selectedDevice, ar,
                                          st.selectedDevice,
                                          Closure(devs, st.selectedDevice, param))

-----------------------------------------------------------------------------
(* The analytics screen after construction (analytics/page.tsx lines 58-66). *)
(* timers is the bag of setInterval timers not yet cleared, effect the one  *)
(* the last run of the auto-refresh effect registered; devicesFetch and    *)
(* rangeFetches are the calls awaiting a response.                         *)

NoDate == <<>>           \* useState<Date>() : undefined

AnalyticsInit ==
    [pc |-> "init", devices |-> <<>>, selectedDevice |-> "", rangeData |-> <<>>,
     loading |-> TRUE, dataLoading |-> FALSE, error |-> "",
     startDate |-> NoDate, endDate |-> NoDate, autoRefresh |-> FALSE,
     timers |-> EmptyBag, effect |-> NoInterval,
     devicesFetch |-> FALSE, rangeFetches |-> EmptyBag, events |-> 0]

-----------------------------------------------------------------------------
PageInit ==
    /\ pc = "init"
    /\ token \in BOOLEAN
    /\ historySync \in BOOLEAN
    /\ devices = <<>>
    /\ selectedDevice = ""
    /\ deviceData = NoData
    /\ loading = TRUE
    /\ dataLoading = FALSE
    /\ error = ""
    /\ autoRefresh = FALSE
    /\ deviceStatuses = <<>>
    /\ searchParams \in UrlParams
    /\ urlDevice = searchParams
    /\ interval = NoInterval
    /\ dataFetches = EmptyBag
    /\ refreshes = EmptyBag
    /\ events = 0

Init ==
    /\ PageInit
    /\ now \in Clock
    /\ latestData = NoData
    /\ online = <<>>
    /\ analytics = AnalyticsInit

(* A fetchDevices call awaiting the device list *)
ListRequest(render) ==
    [pc |-> "list", render |-> render, data |-> <<>>, i |-> 0,
     statuses |-> <<>>, failed |-> {}]

(* fetchDevices up to its first await (lines 95-102) *)
fetchDevices(bag, render) == bag (+) SetToBag({ListRequest(render)})

RefreshRoom == BagCardinality(refreshes) < MaxRefreshes

Mount_fetches ==
    /\ pc = "init"
    /\ analytics.pc = "init"
    /\ pc' = IF ~token THEN "login" ELSE "mounted"
    /\ refreshes' = fetchDevices(refreshes, CurrentRender)
    /\ UNCHANGED <<token, historySync, now, devices, selectedDevice, deviceData, loading,
                   dataLoading, error, autoRefresh, deviceStatuses, searchParams,
                   urlDevice, interval, dataFetches, events, latestData, online, analytics>>

(* Mount effect (lines 67-74); the application shows one screen, and the   *)
(* effect runs when that screen is the dashboard.                          *)
Mount ==
    /\ pc = "init"
    /\ analytics.pc = "init"
    /\ IF ~token
       THEN /\ pc' = "login"
            /\ UNCHANGED refreshes
       ELSE /\ pc' = "mounted"
            /\ refreshes' = fetchDevices(refreshes, CurrentRender)
    /\ UNCHANGED <<token, historySync, now, devices, selectedDevice, deviceData, loading,
                   dataLoading, error, autoRefresh, deviceStatuses, searchParams,
                   urlDevice, interval, dataFetches, events, latestData, online, analytics>>

-----------------------------------------------------------------------------
(* User and timer events *)

Interactive == pc = "mounted" /\ ~loading      \* the header is rendered (line 229)

Event == events < MaxEvents /\ events' = events + 1

(* ctx names the caller of a fetchDeviceData call; "switch" is the call of *)
(* the most recent handleDeviceChange, an earlier one becomes "switched".  *)
Supersede_cancels(bag) ==
    LET old == {f \in BagToSet(bag) : f.ctx = "switch"}
    IN  [f \in BagToSet(bag) \ old |-> bag[f]]

Supersede(bag) ==
    LET old == {f \in BagToSet(bag) : f.ctx = "switch"}
        keep == [f \in BagToSet(bag) \ old |-> bag[f]]
        moved == [g \in {[f EXCEPT !.ctx = "switched"] : f \in old} |->
                    bag[[g EXCEPT !.ctx = "switch"]]]
    IN  keep (+) moved

(* What handleDeviceChange writes before it calls fetchDeviceData (190-192) *)
SwitchView(st, deviceId) ==
    [st EXCEPT !.selectedDevice = deviceId, !.error = "",
               !.dataFetches = Supersede(@)]

SwitchData_keeps(deviceId) == deviceData

SwitchData(deviceId) == NoData

(* handleDeviceChange (lines 189-200), followed by the URL-parameter effect *)
(* when replaceState changed what useSearchParams returns.                 *)
handleDeviceChange(deviceId) ==
    LET param == IF historySync THEN deviceId ELSE searchParams
        st1 == fetchDeviceData(SwitchView(CurrentView, deviceId), deviceId, TRUE,
                               devices, "switch")
        st2 == IF param # searchParams THEN UrlParamEffect(st1, param, devices) ELSE st1
    IN  /\ Interactive
        /\ Event
        /\ deviceId \in Range(devices)
        /\ deviceId # selectedDevice
        /\ Room(IF param # searchParams THEN 2 ELSE 1)
        /\ deviceData' = SwitchData(deviceId)
        /\ urlDevice' = deviceId
        /\ searchParams' = param
        /\ Commit(st2, devices, autoRefresh, param)
        /\ UNCHANGED <<pc, token, historySync, now, devices, loading, autoRefresh,
                       deviceStatuses, refreshes, latestData, online, analytics>>

(* refreshData (lines 202-207); the button is disabled while dataLoading *)
refreshData ==
    LET st1 == IF selectedDevice # ""
               THEN fetchDeviceData(CurrentView, selectedDevice, TRUE, devices, "refresh")
               ELSE CurrentView
    IN  /\ Interactive
        /\ Event
        /\ ~dataLoading
        /\ Room(IF selectedDevice # "" THEN 1 ELSE 0)
        /\ RefreshRoom
        /\ refreshes' = fetchDevices(refreshes, CurrentRender)
        /\ Commit(st1, devices, autoRefresh, searchParams)
        /\ UNCHANGED <<pc, token, historySync, now, devices, deviceData, loading,
                       autoRefresh, deviceStatuses, searchParams, urlDevice,
                       latestData, online, analytics>>

(* onClick={() => setAutoRefresh(!autoRefresh)} (line 263) *)
ToggleAutoRefresh ==
    /\ Interactive
    /\ Event
    /\ autoRefresh' = ~autoRefresh
    /\ Commit(CurrentView, devices, ~autoRefresh, searchParams)
    /\ UNCHANGED <<pc, token, historySync, now, devices, deviceData, loading,
                   deviceStatuses, searchParams, urlDevice, refreshes, latestData, online, analytics>>

(* One firing of the interval callback (lines 57-60), with its own closure *)
IntervalTick ==
    /\ pc = "mounted"
    /\ Event
    /\ interval # NoInterval
    /\ Room(1)
    /\ RefreshRoom
    /\ LET st1 == fetchDeviceData(CurrentView, interval.selectedDevice, FALSE,
                                  interval.devices, "timer")
       IN  Commit(st1, devices, autoRefresh, searchParams)
    /\ refreshes' = fetchDevices(refreshes, interval)
    /\ UNCHANGED <<pc, token, historySync, now, devices, deviceData, loading,
                   autoRefresh, deviceStatuses, searchParams, urlDevice,
                   latestData, online, analytics>>

-----------------------------------------------------------------------------
(* fetchDevices after its awaits *)

Replace(bag, old, new) == (bag (-) SetToBag({old})) (+) SetToBag({new})

Remove(bag, old) == bag (-) SetToBag({old})

(* GET /devices answered OK (lines 104-106, then the first probe or, for an *)
(* empty list, lines 127-140), followed by the URL-parameter effect of the *)
(* render that setDevices causes.                                          *)
ListOk(r, data) ==
    LET st1 == UrlParamEffect(CurrentView, searchParams, data)
    IN  /\ r \in BagToSet(refreshes)
        /\ r.pc = "list"
        /\ Room(IF st1 = CurrentView THEN 0 ELSE 1)
        /\ devices' = data
        /\ IF data = <<>>
           THEN /\ refreshes' = Remove(refreshes, r)
                /\ deviceStatuses' = <<>>
                /\ loading' = FALSE
           ELSE /\ refreshes' = Replace(refreshes, r, [r EXCEPT !.pc = "probe",
                                                               !.data = data, !.i = 1])
                /\ UNCHANGED <<deviceStatuses, loading>>
        /\ Commit(st1, data, autoRefresh, searchParams)
        /\ UNCHANGED <<pc, token, historySync, now, deviceData, autoRefresh,
                       searchParams, urlDevice, events, latestData, online, analytics>>

ListFailure_clears(r, msg) ==
    /\ r \in BagToSet(refreshes)
    /\ r.pc = "list"
    /\ error' = msg
    /\ loading' = FALSE
    /\ devices' = <<>>
    /\ refreshes' = Remove(refreshes, r)
    /\ UNCHANGED <<pc, token, historySync, now, selectedDevice, deviceData,
                   dataLoading, autoRefresh, deviceStatuses, searchParams, urlDevice,
                   interval, dataFetches, events, latestData, online, analytics>>

(* GET /devices failed: else branch (135), catch (138), finally (140) *)
ListFailure(r, msg) ==
    /\ r \in BagToSet(refreshes)
    /\ r.pc = "list"
    /\ error' = msg
    /\ loading' = FALSE
    /\ refreshes' = Remove(refreshes, r)
    /\ UNCHANGED <<pc, token, historySync, now, devices, selectedDevice, deviceData,
                   dataLoading, autoRefresh, deviceStatuses, searchParams, urlDevice,
                   interval, dataFetches, events, latestData, online, analytics>>

ListNotOk(r) == ListFailure(r, MsgDevices)

ListThrows(r) == ListFailure(r, MsgNetwork)

AutoSelects_never(r) == FALSE

(* Set default device if none selected and no URL param (lines 129-133),   *)
(* decided on the values the running fetchDevices captured.                *)
AutoSelects(r) ==
    r.render.selectedDevice = "" /\ r.render.searchParams = "" /\ Len(r.data) > 0

(* setDeviceStatuses(statuses) (line 127) *)
RefreshedStatuses(prev, statuses) == statuses

(* One probe of the loop answered (lines 117-125): statuses[device_id] = v; *)
(* then the next probe, or after the last one lines 127-140.               *)
ProbeDone(r, v, fails) ==
    LET dev == r.data[r.i]
        statuses == MergeStatus(r.statuses, dev, v)
        failed == IF fails THEN r.failed \cup {dev} ELSE r.failed
        st1 == IF AutoSelects(r)
               THEN fetchDeviceData([CurrentView EXCEPT !.selectedDevice = r.data[1]],
                                    r.data[1], TRUE, r.render.devices, "auto")
               ELSE CurrentView
    IN  /\ r \in BagToSet(refreshes)
        /\ r.pc = "probe"
        /\ IF r.i < Len(r.data)
           THEN /\ refreshes' = Replace(refreshes, r, [r EXCEPT !.i = @ + 1,
                                                               !.statuses = statuses,
                                                               !.failed = failed])
                /\ UNCHANGED <<selectedDevice, dataLoading, error, deviceStatuses,
                               interval, dataFetches, loading>>
           ELSE /\ Room(IF AutoSelects(r) THEN 1 ELSE 0)
                /\ refreshes' = Remove(refreshes, r)
                /\ deviceStatuses' = RefreshedStatuses(deviceStatuses, statuses)
                /\ loading' = FALSE
                /\ Commit(st1, devices, autoRefresh, searchParams)
        /\ UNCHANGED <<pc, token, historySync, now, devices, deviceData, autoRefresh,
                       searchParams, urlDevice, events, latestData, online, analytics>>

ProbeOk(r, at) ==
    /\ r.pc = "probe"
    /\ ProbeDone(r, isDeviceOnline(Reading(r.data[r.i], at), now), FALSE)

ProbeNotOk(r) == ProbeDone(r, FALSE, TRUE)

ProbeThrows_aborts(r) ==
    /\ r \in BagToSet(refreshes)
    /\ r.pc = "probe"
    /\ error' = MsgNetwork
    /\ loading' = FALSE
    /\ refreshes' = Remove(refreshes, r)
    /\ UNCHANGED <<pc, token, historySync, now, devices, selectedDevice, deviceData,
                   dataLoading, autoRefresh, deviceStatuses, searchParams, urlDevice,
                   interval, dataFetches, events, latestData, online, analytics>>

ProbeThrows(r) == ProbeDone(r, FALSE, TRUE)

-----------------------------------------------------------------------------
(* fetchDeviceData after its await *)

Finally_always(f, dl) == FALSE

(* finally (line 185) *)
Finally(f, dl) == IF f.showLoading THEN FALSE ELSE dl

(* Lines 162-168: the status is updated when the captured devices hold the device *)
OkStatuses(prev, f, data) ==
    IF f.deviceId \in Range(f.devices)
    THEN MergeStatus(prev, f.deviceId, isDeviceOnline(data, now))
    ELSE prev

NotFoundStatuses_skips(prev, f) == prev

(* Lines 173-176 *)
NotFoundStatuses(prev, f) == MergeStatus(prev, f.deviceId, FALSE)

Settled(f) ==
    /\ dataFetches' = Remove(dataFetches, f)
    /\ dataLoading' = Finally(f, dataLoading)
    /\ UNCHANGED <<pc, token, historySync, now, devices, selectedDevice, loading,
                   autoRefresh, searchParams, urlDevice, interval, refreshes,
                   events, latestData, online, analytics>>

(* response.ok (lines 158-168) *)
FetchOk(f, at) ==
    /\ f \in BagToSet(dataFetches)
    /\ deviceData' = Reading(f.deviceId, at)
    /\ deviceStatuses' = OkStatuses(deviceStatuses, f, Reading(f.deviceId, at))
    /\ UNCHANGED error
    /\ Settled(f)

(* response.status === 404 (lines 169-176) *)
FetchNotFound(f) ==
    /\ f \in BagToSet(dataFetches)
    /\ deviceData' = NoData
    /\ error' = MsgNoData
    /\ deviceStatuses' = NotFoundStatuses(deviceStatuses, f)
    /\ Settled(f)

FailedData_keeps(f) == deviceData

(* Lines 177-183: any other status, or an exception *)
FailedData(f) == NoData

FetchFailure_marksOffline(f, msg) ==
    /\ f \in BagToSet(dataFetches)
    /\ deviceData' = FailedData(f)
    /\ error' = msg
    /\ deviceStatuses' = MergeStatus(deviceStatuses, f.deviceId, FALSE)
    /\ Settled(f)

FetchFailure(f, msg) ==
    /\ f \in BagToSet(dataFetches)
    /\ deviceData' = FailedData(f)
    /\ error' = msg
    /\ UNCHANGED deviceStatuses
    /\ Settled(f)

FetchNotOk(f) == FetchFailure(f, MsgDeviceData)

FetchThrows(f) == FetchFailure(f, MsgNetwork)

-----------------------------------------------------------------------------
Next ==
    \/ Mount
    \/ \E d \in DeviceIds : handleDeviceChange(d)
    \/ refreshData
    \/ ToggleAutoRefresh
    \/ IntervalTick
    \/ \E r \in BagToSet(refreshes), data \in DeviceLists : ListOk(r, data)
    \/ \E r \in BagToSet(refreshes) : ListNotOk(r)
    \/ \E r \in BagToSet(refreshes) : ListThrows(r)
    \/ \E r \in BagToSet(refreshes), at \in RecordedAts : ProbeOk(r, at)
    \/ \E r \in BagToSet(refreshes) : ProbeNotOk(r)
    \/ \E r \in BagToSet(refreshes) : ProbeThrows(r)
    \/ \E f \in BagToSet(dataFetches), at \in RecordedAts : FetchOk(f, at)
    \/ \E f \in BagToSet(dataFetches) : FetchNotFound(f)
    \/ \E f \in BagToSet(dataFetches) : FetchNotOk(f)
    \/ \E f \in BagToSet(dataFetches) : FetchThrows(f)

Spec == Init /\ [][Next]_vars

-----------------------------------------------------------------------------
(* Direct evaluation of the online-status evaluator on one reading *)

Evaluate ==
    /\ online = <<>>
    /\ online' = <<isDeviceOnline(latestData, now)>>
    /\ UNCHANGED <<pageVars, now, latestData, analytics>>

InitOnline ==
    /\ PageInit
    /\ ~token /\ ~historySync /\ searchParams = ""
    /\ now \in EvalTimes
    /\ latestData \in {NoData} \cup {Reading("d1", at) : at \in Strings}
    /\ online = <<>>
    /\ analytics = AnalyticsInit

NextOnline == Evaluate

SpecOnline == InitOnline /\ [][NextOnline]_vars

-----------------------------------------------------------------------------
(* The dashboard is left: React unmounts the component and runs the        *)
(* cleanup of the auto-refresh effect (lines 62-64).  Calls awaiting a     *)
(* response are not aborted.                                               *)
Leave ==
    /\ pc = "mounted"
    /\ Event
    /\ pc' = "left"
    /\ interval' = NoInterval
    /\ UNCHANGED <<token, historySync, now, devices, selectedDevice, deviceData, loading,
                   dataLoading, error, autoRefresh, deviceStatuses, searchParams,
                   urlDevice, dataFetches, refreshes, latestData, online, analytics>>

-----------------------------------------------------------------------------
(* Analytics screen (src/app/analytics/page.tsx) *)

MaxAnalyticsEvents == 3  \* user and timer events on the analytics screen

HourNow == 48            \* new Date(), counted in hours
QuickRanges == {1, 24}   \* two of the Quick Range items
CalendarDates == {<<0>>, NoDate}    \* onSelect of a Calendar: a day, or undefined on deselect

MsgRange == "Failed to fetch range data"

RangeResults(d) ==
    {<<>>, <<Reading(d, <<"4">>)>>, <<Reading(d, <<"4">>), Reading(d, <<"5">>)>>}

dashboardVars == <<pageVars, now, latestData, online>>

(* What fetchRangeData of one render captured *)
RangeClosure(a) ==
    [selectedDevice |-> a.selectedDevice, startDate |-> a.startDate, endDate |-> a.endDate]

(* before records the collection as it was when the call started *)
RangeFetch(c, ctx, before) ==
    [selectedDevice |-> c.selectedDevice, startDate |-> c.startDate,
     endDate |-> c.endDate, ctx |-> ctx, before |-> before]

(* fetchRangeData up to its await (lines 123-134) *)
fetchRangeData(a, c, ctx) ==
    IF c.selectedDevice = "" \/ c.startDate = NoDate \/ c.endDate = NoDate THEN a
    ELSE [a EXCEPT !.dataLoading = TRUE,
                   !.error = "",
                   !.rangeFetches = @ (+) SetToBag({RangeFetch(c, ctx, a.rangeData)})]

PollerOn(a) ==
    a.autoRefresh /\ a.selectedDevice # "" /\ a.startDate # NoDate /\ a.endDate # NoDate

Deps(a) == <<a.autoRefresh, a.selectedDevice, a.startDate, a.endDate>>

ClearInterval_leaks(timers, t) == timers

(* if (interval) clearInterval(interval) (lines 93-95) *)
ClearInterval(timers, t) ==
    IF t = NoInterval THEN timers ELSE timers (-) SetToBag({t})

(* The auto-refresh effect (lines 86-96): when a dep changed, the cleanup  *)
(* of the previous run, then a new interval whose callback is the          *)
(* fetchRangeData of the new render.                                       *)
AnalyticsAutoRefreshEffect(a0, a1) ==
    IF Deps(a0) = Deps(a1) THEN a1
    ELSE LET cleared == ClearInterval(a1.timers, a0.effect)
         IN  IF PollerOn(a1)
             THEN [a1 EXCEPT !.timers = cleared (+) SetToBag({RangeClosure(a1)}),
                             !.effect = RangeClosure(a1)]
             ELSE [a1 EXCEPT !.timers = cleared, !.effect = NoInterval]

(* A state update followed by the effects of the render it causes; an      *)
(* unmounted component renders no more.                                    *)
AnalyticsRender(a1) ==
    /\ analytics' = IF a1.pc = "mounted" THEN AnalyticsAutoRefreshEffect(analytics, a1)
                    ELSE a1
    /\ UNCHANGED dashboardVars

(* Mount effect (lines 69-83), run when the screen shown is this one *)
AnalyticsMount ==
    /\ analytics.pc = "init"
    /\ pc = "init"
    /\ IF ~token
       THEN AnalyticsRender([analytics EXCEPT !.pc = "login"])
       ELSE AnalyticsRender([analytics EXCEPT !.pc = "mounted",
                                              !.devicesFetch = TRUE,
                                              !.startDate = <<HourNow - 24>>,
                                              !.endDate = <<HourNow>>])

(* fetchDevices answered OK (lines 107-112, 118-120) *)
AnalyticsListOk(data) ==
    /\ analytics.devicesFetch
    /\ AnalyticsRender([analytics EXCEPT
                           !.devices = data,
                           !.selectedDevice = IF Len(data) > 0 THEN data[1] ELSE @,
                           !.loading = FALSE,
                           !.devicesFetch = FALSE])

(* fetchDevices failed: else branch (114), catch (117), finally (119) *)
AnalyticsListFailure(msg) ==
    /\ analytics.devicesFetch
    /\ AnalyticsRender([analytics EXCEPT !.error = msg, !.loading = FALSE,
                                         !.devicesFetch = FALSE])

AnalyticsListNotOk == AnalyticsListFailure(MsgDevices)

AnalyticsListThrows == AnalyticsListFailure(MsgNetwork)

AnalyticsInteractive == analytics.pc = "mounted" /\ ~analytics.loading   \* line 329

AnalyticsEvent == analytics.events < MaxAnalyticsEvents

Counted(a) == [a EXCEPT !.events = @ + 1]

RangeRoom == BagCardinality(analytics.rangeFetches) < MaxDataFetches

(* handleDeviceChange of the analytics screen (lines 156-158) *)
AnalyticsHandleDeviceChange(deviceId) ==
    /\ AnalyticsInteractive
    /\ AnalyticsEvent
    /\ deviceId \in Range(analytics.devices)
    /\ deviceId # analytics.selectedDevice
    /\ AnalyticsRender(Counted([analytics EXCEPT !.selectedDevice = deviceId]))

(* onSelect={setStartDate} (line 398) *)
SetStartDate(date) ==
    /\ AnalyticsInteractive
    /\ AnalyticsEvent
    /\ date # analytics.startDate
    /\ AnalyticsRender(Counted([analytics EXCEPT !.startDate = date]))

(* onSelect={setEndDate} (line 416) *)
SetEndDate(date) ==
    /\ AnalyticsInteractive
    /\ AnalyticsEvent
    /\ date # analytics.endDate
    /\ AnalyticsRender(Counted([analytics EXCEPT !.endDate = date]))

(* setQuickRange (lines 164-170) *)
setQuickRange(hours) ==
    /\ AnalyticsInteractive
    /\ AnalyticsEvent
    /\ AnalyticsRender(Counted([analytics EXCEPT !.startDate = <<HourNow - hours>>,
                                                 !.endDate = <<HourNow>>]))

(* handleFetchData (lines 160-162); the button is disabled as line 445 says *)
handleFetchData ==
    /\ AnalyticsInteractive
    /\ AnalyticsEvent
    /\ ~analytics.dataLoading
    /\ analytics.selectedDevice # ""
    /\ analytics.startDate # NoDate
    /\ analytics.endDate # NoDate
    /\ RangeRoom
    /\ AnalyticsRender(Counted(fetchRangeData(analytics, RangeClosure(analytics), "button")))

(* onClick={() => setAutoRefresh(!autoRefresh)} (line 348) *)
AnalyticsToggleAutoRefresh ==
    /\ AnalyticsInteractive
    /\ AnalyticsEvent
    /\ AnalyticsRender(Counted([analytics EXCEPT !.autoRefresh = ~@]))

(* One firing of a timer not yet cleared (lines 89-91) *)
AnalyticsIntervalTick ==
    /\ AnalyticsEvent
    /\ RangeRoom
    /\ \E t \in BagToSet(analytics.timers) :
          AnalyticsRender(Counted(fetchRangeData(analytics, t, "timer")))

(* The screen is left: the cleanup of the auto-refresh effect (lines 93-95) *)
AnalyticsLeave ==
    /\ analytics.pc = "mounted"
    /\ AnalyticsEvent
    /\ AnalyticsRender(Counted([analytics EXCEPT
                                   !.pc = "left",
                                   !.timers = ClearInterval(@, analytics.effect),
                                   !.effect = NoInterval]))

(* response.ok (lines 143-145), finally (152) *)
RangeOk(f, data) ==
    /\ f \in BagToSet(analytics.rangeFetches)
    /\ AnalyticsRender([analytics EXCEPT !.rangeData = data,
                                         !.dataLoading = FALSE,
                                         !.rangeFetches = Remove(@, f)])

RangeFailure_clears(f, msg) ==
    /\ f \in BagToSet(analytics.rangeFetches)
    /\ AnalyticsRender([analytics EXCEPT !.error = msg,
                                         !.rangeData = <<>>,
                                         !.dataLoading = FALSE,
                                         !.rangeFetches = Remove(@, f)])

(* else branch (147), catch (150), finally (152) *)
RangeFailure(f, msg) ==
    /\ f \in BagToSet(analytics.rangeFetches)
    /\ AnalyticsRender([analytics EXCEPT !.error = msg,
                                         !.dataLoading = FALSE,
                                         !.rangeFetches = Remove(@, f)])

RangeNotOk(f) == RangeFailure(f, MsgRange)

RangeThrows(f) == RangeFailure(f, MsgNetwork)

AnalyticsNext ==
    \/ AnalyticsMount
    \/ \E data \in DeviceLists : AnalyticsListOk(data)
    \/ AnalyticsListNotOk
    \/ AnalyticsListThrows
    \/ \E d \in DeviceIds : AnalyticsHandleDeviceChange(d)
    \/ \E date \in CalendarDates : SetStartDate(date)
    \/ \E date \in CalendarDates : SetEndDate(date)
    \/ \E hours \in QuickRanges : setQuickRange(hours)
    \/ handleFetchData
    \/ AnalyticsToggleAutoRefresh
    \/ AnalyticsIntervalTick
    \/ AnalyticsLeave
    \/ \E f \in BagToSet(analytics.rangeFetches) :
          \E data \in RangeResults(f.selectedDevice) : RangeOk(f, data)
    \/ \E f \in BagToSet(analytics.rangeFetches) : RangeNotOk(f)
    \/ \E f \in BagToSet(analytics.rangeFetches) : RangeThrows(f)

(* The application shows one screen: the first mount effect to run decides *)
(* which.                                                                  *)
NextApp ==
    \/ Next
    \/ Leave
    \/ AnalyticsNext

SpecApp == Init /\ [][NextApp]_vars

-----------------------------------------------------------------------------
(* Steps of the two fetch paths, as seen from outside *)

LastProbe(r) == r.pc = "probe" /\ r.i = Len(r.data)

ProbeFails(r) == ProbeNotOk(r) \/ ProbeThrows(r)

ProbeAnswered(r) == ProbeFails(r) \/ \E at \in RecordedAts : ProbeOk(r, at)

Started == BagCardinality(dataFetches') > BagCardinality(dataFetches)

RefreshStep == refreshes' # refreshes       \* a fetchDevices call moved

FetchStep == dataFetches' # dataFetches     \* a fetchDeviceData call started or settled

-----------------------------------------------------------------------------
(* C1: isDeviceOnline returns true for a reading exactly when now minus    *)
(* recorded_at (decimal seconds) times 1000 is at most 20000, also for a   *)
(* negative elapsed time, and false when the reading is absent.            *)

IsDecimal(s) ==
    LET body == IF s # <<>> /\ s[1] = "-" THEN Tail(s) ELSE s
    IN  body # <<>> /\ \A k \in DOMAIN body : IsDigit(body[k])

RECURSIVE Pow10(_)
Pow10(n) == IF n = 0 THEN 1 ELSE 10 * Pow10(n - 1)

RECURSIVE Positional(_, _)
Positional(s, k) ==
    IF k > Len(s) THEN 0
    ELSE DigitValue[s[k]] * Pow10(Len(s) - k) + Positional(s, k + 1)

Seconds(s) == IF s[1] = "-" THEN 0 - Positional(Tail(s), 1) ELSE Positional(s, 1)

C1_OnlineIffWithinThreshold ==
    online # <<>> =>
        IF latestData = NoData THEN online[1] = FALSE
        ELSE IsDecimal(latestData.recorded_at) =>
                online[1] = (now - Seconds(latestData.recorded_at) * 1000 <= 20000)

C1_Witness ==
    /\ online = <<TRUE>>
    /\ latestData # NoData
    /\ IsDecimal(latestData.recorded_at)
    /\ now - Seconds(latestData.recorded_at) * 1000 < 0

(* C2: once a 404 for device D is handled, the reading is none, the error  *)
(* is exactly the no-data message, which is no generic message, and D is   *)
(* offline in the status map.                                              *)
C2_NotFoundClearsAndMarksOffline ==
    [][\A f \in BagToSet(dataFetches) :
          (FetchStep /\ FetchNotFound(f)) =>
              /\ deviceData' = NoData
              /\ error' = "No data available for this device"
              /\ error' \notin GenericMessages
              /\ f.deviceId \in DOMAIN deviceStatuses'
              /\ deviceStatuses'[f.deviceId] = FALSE]_vars

C2_Witness ==
    /\ error = MsgNoData
    /\ deviceData = NoData
    /\ selectedDevice \in DOMAIN deviceStatuses
    /\ ~deviceStatuses[selectedDevice]
    /\ dataFetches = EmptyBag

(* C3: once a non-OK response other than 404, or an exception, is handled, *)
(* the reading is none and the matching generic message is shown.          *)
C3_FailureClearsReading ==
    [][\A f \in BagToSet(dataFetches) :
          /\ (FetchStep /\ FetchNotOk(f)) =>
                deviceData' = NoData /\ error' = "Failed to fetch device data"
          /\ (FetchStep /\ FetchThrows(f)) =>
                deviceData' = NoData /\ error' = "Network error"]_vars

C3_Witness ==
    /\ error = MsgDeviceData
    /\ deviceData = NoData
    /\ selectedDevice # ""
    /\ dataFetches = EmptyBag

(* C4: when a refresh cycle completes, the status map has an entry for     *)
(* every device of the returned list, false for every device whose probe   *)
(* failed; a failed probe is followed by the probe of the next device.     *)
C4_FailedProbesAreOffline ==
    [][\A r \in BagToSet(refreshes) :
          /\ (RefreshStep /\ LastProbe(r) /\ ProbeAnswered(r)) =>
                /\ Range(r.data) \subseteq DOMAIN deviceStatuses'
                /\ \A d \in r.failed : ~deviceStatuses'[d]
                /\ ProbeFails(r) => ~deviceStatuses'[r.data[r.i]]
          /\ (RefreshStep /\ r.pc = "probe" /\ ~LastProbe(r) /\ ProbeFails(r)) =>
                \E q \in BagToSet(refreshes') :
                    /\ q.pc = "probe" /\ q.data = r.data /\ q.i = r.i + 1
                    /\ r.data[r.i] \in q.failed
                    /\ ~q.statuses[r.data[r.i]]]_vars

C4_Witness ==
    \E r \in BagToSet(refreshes) :
        /\ LastProbe(r)
        /\ r.i > 1
        /\ r.data[1] \in r.failed
        /\ ~r.statuses[r.data[1]]

(* C5: a failed device-list request sets its generic message, issues no    *)
(* probe and leaves devices, the status map and the selection as they were. *)
C5_ListFailureStops ==
    [][\A r \in BagToSet(refreshes) :
          (RefreshStep /\ (ListNotOk(r) \/ ListThrows(r))) =>
              /\ ListNotOk(r) => error' = "Failed to fetch devices"
              /\ ListThrows(r) => error' = "Network error"
              /\ refreshes' = Remove(refreshes, r)
              /\ dataFetches' = dataFetches
              /\ UNCHANGED <<devices, deviceStatuses, selectedDevice>>]_vars

C5_Witness ==
    /\ error = MsgDevices
    /\ refreshes = EmptyBag
    /\ devices # <<>>
    /\ selectedDevice # ""
    /\ DOMAIN deviceStatuses # {}

(* C6: a refresh that completes while no device is selected and the        *)
(* location has no device parameter selects the first device of its list   *)
(* and starts a fetch for it; otherwise it selects nothing.                *)
C6_AutoSelectOnlyWhenNoneSelected ==
    [][\A r \in BagToSet(refreshes) :
          (RefreshStep /\ LastProbe(r) /\ ProbeAnswered(r)) =>
              IF selectedDevice = "" /\ urlDevice = ""
              THEN /\ selectedDevice' = r.data[1]
                   /\ \E f \in BagToSet(dataFetches') :
                         /\ f.deviceId = r.data[1]
                         /\ CopiesIn(f, dataFetches') = CopiesIn(f, dataFetches) + 1
              ELSE selectedDevice' = selectedDevice]_vars

(* C7: a switch of the selected device clears the reading and the error,   *)
(* and both stay clear until the fetch the switch started resolves.        *)
SwitchPending == \E f \in BagToSet(dataFetches) : f.ctx = "switch"

(* The switch's own second call, made by the URL-parameter effect *)
SiblingSettles ==
    \E f \in BagToSet(dataFetches) :
        f.ctx = "url" /\ f.deviceId = selectedDevice /\ dataFetches' = Remove(dataFetches, f)

C7_ClearUntilSwitchFetchResolves ==
    [][(/\ SwitchPending /\ SwitchPending'
        /\ deviceData = NoData /\ error = ""
        /\ ~SiblingSettles) => (deviceData' = NoData /\ error' = "")]_vars

(* C7 as amended: in the state that follows the switch, while the fetch    *)
(* the switch started is unresolved, the reading and the error are clear.  *)
C7_SwitchClears ==
    [][\A d \in DeviceIds :
          (FetchStep /\ handleDeviceChange(d)) =>
              /\ deviceData' = NoData
              /\ error' = ""
              /\ selectedDevice' = d
              /\ \E f \in BagToSet(dataFetches') : f.ctx = "switch" /\ f.deviceId = d]_vars

C7_Witness ==
    /\ \E f \in BagToSet(dataFetches) : f.ctx = "switch" /\ f.deviceId = selectedDevice
    /\ \E f \in BagToSet(dataFetches) : f.ctx \notin {"switch", "url"}
    /\ deviceData = NoData
    /\ error = ""

(* C8: every fetchDeviceData call with a non-empty identifier, foreground  *)
(* or background, leaves the error empty when it has started; a call with  *)
(* an empty identifier changes nothing and issues no request.              *)
C8_FetchStartClearsError ==
    /\ [][Started => error' = ""]_vars
    /\ [](\A showLoading \in BOOLEAN, ctx \in {"switch", "refresh", "timer", "url", "auto"} :
            fetchDeviceData(CurrentView, "", showLoading, devices, ctx) = CurrentView)

C8_Witness ==
    /\ \E f \in BagToSet(dataFetches) : ~f.showLoading
    /\ \E f \in BagToSet(dataFetches) : f.showLoading
    /\ error = ""

(* C9: a successful fetch for device D stores the reading and sets D's     *)
(* status to isDeviceOnline of that reading, whatever started the fetch.   *)
C9_SuccessRecomputesStatus ==
    [][\A f \in BagToSet(dataFetches), at \in RecordedAts :
          (FetchStep /\ FetchOk(f, at)) =>
              /\ deviceData' = Reading(f.deviceId, at)
              /\ f.deviceId \in DOMAIN deviceStatuses'
              /\ deviceStatuses'[f.deviceId] = isDeviceOnline(Reading(f.deviceId, at), now)]_vars

(* C10: every update of the status map changes only the entries of the     *)
(* devices the update probed and keeps every other entry.                  *)
Keeps(probed) ==
    \A k \in (DOMAIN deviceStatuses) \ probed :
        k \in DOMAIN deviceStatuses' /\ deviceStatuses'[k] = deviceStatuses[k]

DataSettles(f) == FetchStep /\ dataFetches' = Remove(dataFetches, f)

RefreshSettles(r) ==
    /\ RefreshStep
    /\ refreshes' = Remove(refreshes, r)
    /\ \/ r.pc = "list" /\ devices' = <<>>
       \/ LastProbe(r)

ProbedBy(r) == IF r.pc = "list" THEN {} ELSE Range(r.data)

C10_EveryUpdateMerges ==
    [][/\ \A f \in BagToSet(dataFetches) : DataSettles(f) => Keeps({f.deviceId})
       /\ \A r \in BagToSet(refreshes) :
             (RefreshSettles(r) /\ deviceStatuses' # deviceStatuses) => Keeps(ProbedBy(r))]_vars

(* C10 as amended: the single-device path merges by key; the refresh path  *)
(* replaces the map by the results of its own probes, one entry for each   *)
(* device of the returned list and no other entry.                         *)
C10_MergeOrReplace ==
    [][/\ \A f \in BagToSet(dataFetches) :
             DataSettles(f) =>
                /\ Keeps({f.deviceId})
                /\ DOMAIN deviceStatuses' \subseteq (DOMAIN deviceStatuses) \cup {f.deviceId}
       /\ \A r \in BagToSet(refreshes) :
             (RefreshStep /\ LastProbe(r) /\ ProbeAnswered(r)) =>
                /\ DOMAIN deviceStatuses' = Range(r.data)
                /\ \A k \in DOMAIN r.statuses : deviceStatuses'[k] = r.statuses[k]
       /\ \A r \in BagToSet(refreshes) :
             (RefreshStep /\ r.pc = "list" /\ ListOk(r, <<>>)) => deviceStatuses' = <<>>]_vars

C10_Witness ==
    /\ selectedDevice = "d2"
    /\ devices = <<"d1">>
    /\ DOMAIN deviceStatuses = {"d1"}
    /\ refreshes = EmptyBag
    /\ dataFetches = EmptyBag

(* C11: a switch of the selected device cancels no latest-reading fetch in *)
(* flight, and a successful response is stored as the displayed reading    *)
(* whichever device is selected when it arrives, so the displayed reading  *)
(* can belong to another device than the selected one.                     *)
InFlightFor(bag, d) ==
    BagCardinality([f \in {g \in BagToSet(bag) : g.deviceId = d} |-> bag[f]])

C11_StaleResponseApplied ==
    [][/\ \A d \in DeviceIds :
             (FetchStep /\ handleDeviceChange(d)) =>
                 /\ \A x \in DeviceIds \ {d} :
                       InFlightFor(dataFetches', x) = InFlightFor(dataFetches, x)
                 /\ InFlightFor(dataFetches', d) > InFlightFor(dataFetches, d)
       /\ \A f \in BagToSet(dataFetches), at \in RecordedAts :
             (FetchStep /\ FetchOk(f, at) /\ f.deviceId # selectedDevice) =>
                 /\ deviceData' = Reading(f.deviceId, at)
                 /\ deviceData'.device_id # selectedDevice']_vars

C11_Witness ==
    /\ selectedDevice # ""
    /\ deviceData # NoData
    /\ deviceData.device_id # selectedDevice
    /\ \E f \in BagToSet(dataFetches) : f.ctx = "switch" /\ f.deviceId = selectedDevice

(* C12: each screen has at most one polling timer, and only while          *)
(* auto-refresh is on and a device is selected (on the analytics screen    *)
(* also a start and an end instant are set) and the screen is shown; a     *)
(* timer-driven fetch starts only in such a state, so none starts once     *)
(* auto-refresh is off or the screen is left.                              *)
TimerStarted(before, after) ==
    \E f \in BagToSet(after) : f.ctx = "timer" /\ CopiesIn(f, after) > CopiesIn(f, before)

RangeStep == analytics'.rangeFetches # analytics.rangeFetches

RangeFails(f) == RangeNotOk(f) \/ RangeThrows(f)

C13_FailureKeepsCollectionFromStart ==
    [][\A f \in BagToSet(analytics.rangeFetches) :
          (RangeStep /\ RangeFails(f)) =>
              /\ analytics'.error \in {"Failed to fetch range data", "Network error"}
              /\ analytics'.rangeData = f.before]_vars

(* C13 as amended: the failed fetch itself does not write the collection,  *)
(* which stays as it was when the failure was handled; every change of the *)
(* collection is a successful fetch storing its full result set.           *)
C13_FailureKeepsCollection ==
    [][/\ \A f \in BagToSet(analytics.rangeFetches) :
             /\ (RangeStep /\ RangeNotOk(f)) =>
                   /\ analytics'.error = "Failed to fetch range data"
                   /\ analytics'.rangeData = analytics.rangeData
             /\ (RangeStep /\ RangeThrows(f)) =>
                   /\ analytics'.error = "Network error"
                   /\ analytics'.rangeData = analytics.rangeData
             /\ \A data \in RangeResults(f.selectedDevice) :
                   (RangeStep /\ RangeOk(f, data)) => analytics'.rangeData = data
       /\ analytics'.rangeData # analytics.rangeData =>
             \E f \in BagToSet(analytics.rangeFetches) :
                 /\ analytics'.rangeFetches = Remove(analytics.rangeFetches, f)
                 /\ analytics'.rangeData \in RangeResults(f.selectedDevice)
                 /\ analytics'.error = analytics.error]_vars

C13_Witness ==
    /\ analytics.error = MsgRange
    /\ analytics.rangeData # <<>>
    /\ analytics.rangeFetches = EmptyBag
    /\ ~analytics.dataLoading

(* C14: the selected device and the device parameter of the location are   *)
(* synchronized in both directions: whenever a device is selected the      *)
(* parameter equals it, and a parameter naming a device of the fetched     *)
(* list makes that device the selected one.                                *)
C14_SelectionMirrorsLocation ==
    /\ [](selectedDevice # "" => urlDevice = selectedDevice)
    /\ [][\A r \in BagToSet(refreshes), data \in DeviceLists :
             (RefreshStep /\ ListOk(r, data) /\ urlDevice \in Range(data)) =>
                 selectedDevice' = urlDevice]_vars

(* C15: a background latest-reading fetch changes the data-loading flag    *)
(* neither when it starts nor when it finishes, whatever its outcome; a    *)
(* foreground fetch sets the flag when it starts and clears it when it     *)
(* finishes, whatever its outcome.                                         *)
NewFetch(f) == CopiesIn(f, dataFetches') > CopiesIn(f, dataFetches)

C15_OnlyForegroundTogglesLoading ==
    [][/\ \A f \in BagToSet(dataFetches') :
             (NewFetch(f) /\ f.showLoading) => dataLoading'
       /\ (/\ \E f \in BagToSet(dataFetches') : NewFetch(f) /\ ~f.showLoading
           /\ ~\E f \in BagToSet(dataFetches') : NewFetch(f) /\ f.showLoading)
             => dataLoading' = dataLoading
       /\ \A f \in BagToSet(dataFetches) :
             DataSettles(f) =>
                 dataLoading' = IF f.showLoading THEN FALSE ELSE dataLoading]_vars

C15_Witness ==
    /\ dataLoading
    /\ \E f \in BagToSet(dataFetches) : f.showLoading
    /\ \E f \in BagToSet(dataFetches) : ~f.showLoading
    /\ error = ""

(* C16: a screen that loads while no token is stored navigates to the      *)
(* login screen, starts no device-list fetch and sets no error message,    *)
(* and nothing is fetched afterwards.                                      *)
C16_NoTokenRedirects ==
    /\ [][(~token /\ pc = "init" /\ pc' # "init") =>
             /\ pc' = "login"
             /\ refreshes' = EmptyBag
             /\ error' = ""]_vars
    /\ [][(~token /\ analytics.pc = "init" /\ analytics'.pc # "init") =>
             /\ analytics'.pc = "login"
             /\ ~analytics'.devicesFetch
             /\ analytics'.error = ""]_vars
    /\ [](pc = "login" =>
             refreshes = EmptyBag /\ dataFetches = EmptyBag /\ error = "")
    /\ [](analytics.pc = "login" =>
             /\ ~analytics.devicesFetch
             /\ analytics.rangeFetches = EmptyBag
             /\ analytics.error = "")
    /\ []((pc = "mounted" \/ analytics.pc = "mounted") => token)

C16_Witness ==
    /\ ~token
    /\ analytics.pc = "login"
    /\ analytics.loading
    /\ analytics.startDate = NoDate

(* C17: the requests of one refresh cycle are sequential, the probes go    *)
(* one at a time in list order, each after the previous one has resolved,  *)
(* and a cycle over N devices issues exactly 1 + N HTTP calls.             *)
Calls(r) == IF r.pc = "list" THEN 1 ELSE 1 + r.i     \* requests r has issued so far

NextProbe(r) ==
    \E q \in BagToSet(refreshes') :
        /\ refreshes' = Replace(refreshes, r, q)
        /\ q.pc = "probe" /\ q.data = r.data /\ q.render = r.render
        /\ q.i = r.i + 1
        /\ Calls(q) = Calls(r) + 1

Sequential ==
    /\ \A r \in BagToSet(refreshes), data \in DeviceLists :
          (RefreshStep /\ ListOk(r, data)) =>
              IF data = <<>> THEN refreshes' = Remove(refreshes, r)
              ELSE \E q \in BagToSet(refreshes') :
                      /\ refreshes' = Replace(refreshes, r, q)
                      /\ q.pc = "probe" /\ q.data = data /\ q.i = 1
                      /\ Calls(q) = 2
    /\ \A r \in BagToSet(refreshes) :
          (RefreshStep /\ r.pc = "probe" /\ ~LastProbe(r) /\ ProbeAnswered(r)) =>
              NextProbe(r) /\ dataFetches' = dataFetches

C17_OnePlusNCalls ==
    [][/\ Sequential
       /\ \A r \in BagToSet(refreshes) :
             (RefreshStep /\ LastProbe(r) /\ ProbeAnswered(r)) =>
                 /\ refreshes' = Remove(refreshes, r)
                 /\ Calls(r) = 1 + Len(r.data)
                 /\ BagCardinality(dataFetches') = BagCardinality(dataFetches)]_vars

(* C17 as amended: 1 + N sequential calls, and one more, not awaited, for  *)
(* the first device when the cycle ends by auto-selecting it.              *)
C17_SequentialProbes ==
    [][/\ Sequential
       /\ \A r \in BagToSet(refreshes) :
             (RefreshStep /\ LastProbe(r) /\ ProbeAnswered(r)) =>
                 /\ refreshes' = Remove(refreshes, r)
                 /\ Calls(r) = 1 + Len(r.data)
                 /\ IF r.render.selectedDevice = "" /\ r.render.searchParams = ""
                    THEN /\ BagCardinality(dataFetches') = BagCardinality(dataFetches) + 1
                         /\ \E f \in BagToSet(dataFetches') :
                               NewFetch(f) /\ f.deviceId = r.data[1] /\ f.showLoading
                    ELSE dataFetches' = dataFetches]_vars

C17_Witness ==
    \E r \in BagToSet(refreshes) :
        /\ LastProbe(r)
        /\ Calls(r) = 3
        /\ DOMAIN r.statuses = {r.data[1]}
        /\ r.render.selectedDevice = ""
        /\ dataFetches = EmptyBag

(* C18: a refresh never changes the selected device once one is selected,  *)
(* also when the selection is made while the refresh's list request or     *)
(* probes are in flight.                                                   *)
C18_RefreshKeepsSelection ==
    [][\A r \in BagToSet(refreshes) :
          (/\ RefreshStep
           /\ selectedDevice # ""
           /\ r.pc = "probe"
           /\ ProbeAnswered(r))
            => selectedDevice' = selectedDevice]_vars


(* C19: the data-loading flag is true in every state in which a foreground *)
(* latest-reading fetch is in flight, also when several overlap and one of *)
(* them finishes before the others.                                        *)
C19_LoadingWhileForegroundInFlight ==
    (\E f \in BagToSet(dataFetches) : f.showLoading) => dataLoading

(* C20: once a refresh has returned a non-empty device list, some device   *)
(* of that list becomes the selected one without user action, whatever     *)
(* the device parameter is.  Stated on the states in which the page has    *)
(* come to rest after its first refresh: no user or timer event has        *)
(* happened, the refresh has completed and no call is awaiting a response, *)
(* so nothing more happens without user action.                            *)
AtRest ==
    /\ pc = "mounted"
    /\ events = 0
    /\ ~loading
    /\ refreshes = EmptyBag
    /\ dataFetches = EmptyBag

C20_SomeDeviceGetsSelected ==
    (AtRest /\ devices # <<>>) => selectedDevice \in Range(devices)

(* C21: a latest-reading fetch that fails with a non-OK status other than  *)
(* 404, or with an exception, leaves the status map, the device list and   *)
(* the selected device unchanged; it changes only the reading, the error   *)
(* message and, in foreground mode, the data-loading flag, so the failed   *)
(* device keeps the online flag it had.                                    *)
C21_FailureFrame ==
    [][\A f \in BagToSet(dataFetches) :
          (FetchStep /\ (FetchNotOk(f) \/ FetchThrows(f))) =>
              /\ deviceStatuses' = deviceStatuses
              /\ devices' = devices
              /\ selectedDevice' = selectedDevice
              /\ f.deviceId \in DOMAIN deviceStatuses =>
                    deviceStatuses'[f.deviceId] = deviceStatuses[f.deviceId]
              /\ ~f.showLoading => dataLoading' = dataLoading
              /\ UNCHANGED <<pc, loading, autoRefresh, searchParams, urlDevice,
                             interval, refreshes>>
              /\ dataFetches' = Remove(dataFetches, f)]_vars

C21_Witness ==
    /\ error \in {MsgDeviceData, MsgNetwork}
    /\ deviceData = NoData
    /\ selectedDevice \in DOMAIN deviceStatuses
    /\ deviceStatuses[selectedDevice]
    /\ dataFetches = EmptyBag
    /\ refreshes = EmptyBag
    /\ events = 0

====
